---- MODULE Spec2Model ----
(***************************************************************************)
(* A model of the monad_magic NFT minting tool: getGasPrice, the sale      *)
(* window monitor, the mint loops of main and of startMonitoring, and      *)
(* executeMint (src/main.js, src/api/services/nft.js lines 104-188).       *)
(*                                                                         *)
(* Amounts of native currency (fees, prices, balances) are counted in      *)
(* gwei, so that parseUnits('50', 'gwei') is 50.                           *)
(***************************************************************************)
EXTENDS Integers, Sequences, FiniteSets, TLC

\* ------------------------------------------------------------------ bounds

\* Largest base fee a fee read returns (gwei); gas prices go to twice that plus one.
MaxFeeReading == 4

\* Most wallets in the wallet list, and most mints per wallet (answers.mintAmount).
MaxWallets == 2
MaxMintAmount == 2
\* Last second of the clock; the sale window lies within 0..MaxTime.
MaxTime == 1
\* Most invocations of the start callback that a monitoring run is followed through.
MaxCallbacks == 2
\* Seconds by which a scheduled sale starts after the run, or after the run plus
\* the longest delay of a timer.
MaxLead == 2
\* Largest n of the PRIVATEKEY_n entries of the environment.
MaxKeys == 3
\* Number of different configs a contract may answer a config read with.
MaxConfigValue == 2
\* The wei below one gwei of a base fee and of a typed price run from 0 to this.
MaxFracWei == 3
\* A base fee, in gwei, above 2^23, where a double has 29 bits below the point.
HugeGwei == 10000000

\* ------------------------------------------------------- program constants

\* main.js:180  for (let i = 0; i < 3; i++)
MaxGasAttempts == 3
\* main.js:213  parseUnits('50', 'gwei')
DefaultBaseFee == 50
\* main.js:214  parseUnits('100', 'gwei')
DefaultGasPrice == 100

\* main.js:290  Gas Limit cannot be less than 100000
MinGasLimit == 100000

\* An absent value is the empty sequence and a present value v is <<v>>.
\* main.js:43  DEFAULT_MONITOR_INTERVAL, in milliseconds
DEFAULT_MONITOR_INTERVAL == 3000
\* the longest delay a Node.js timer keeps, in milliseconds: 2^31 - 1
TIMEOUT_MAX == 2147483647

None == <<>>
Some(v) == <<v>>
Val(o) == o[1]

\* ------------------------------------------------------------------- state

VARIABLES
  gpc,        \* getGasPrice: position ("idle", "feeData", "gasPrice", "wait", "done", "thrown")
  gi,         \* getGasPrice: the loop index i
  gBaseFee,   \* getGasPrice: baseFee of the attempt under way, or None
  gReads,     \* number of provider.getFeeData() calls made
  gFailed,    \* number of attempts that ended in the catch of line 204
  gWaits,     \* number of 1000 ms waits (line 207)
  gLive,      \* the quote the attempt that succeeded computed (None if none did)
  gQuote      \* what getGasPrice returned, or None

gasVars == <<gpc, gi, gBaseFee, gReads, gFailed, gWaits, gLive, gQuote>>

VARIABLES
  mintMode,     \* answers.mintMode
  mintMethod,   \* answers.mintMethod ("auto", "fourParams", "twoParams")
  nWallets,     \* wallets.length; the wallets are 0 .. nWallets - 1
  mintAmount,   \* parseInt(answers.mintAmount)
  gasLimit,     \* parseInt(answers.gasLimit)
  maxFeePerGas,
  maxPriorityFeePerGas,
  monitorInterval, \* the monitorInterval of startMonitoring (undefined outside it)
  price,        \* mintPrice of main, or the price handed to startMinting; None before
  config,       \* the contract's publicStage: [startTime, endTime, price]
  now,          \* the clock, in seconds
  balance,      \* the chain: balance of each wallet
  gasCost,      \* the chain: what a mined mint transaction of this run pays for gas
  pc,           \* position of the single thread of control
  i,            \* wallet loop index
  j,            \* unit loop index
  isFirstAttempt, \* startMonitoring, line 88
  isCompleted,  \* startMonitoring, line 89
  callbacks,    \* number of times monitorMintStart invoked startCallback
  configRead,   \* how the last read of the contract's config ended: "ok", "error"
  call,         \* the executeMint call under way, or the last one that returned
  ws            \* per wallet: what the run has done with it so far

paramVars == <<mintMode, mintMethod, nWallets, mintAmount, gasLimit, maxFeePerGas,
               maxPriorityFeePerGas, monitorInterval, config, gasCost>>
mainVars == <<paramVars, price, now, balance, pc, i, j, isFirstAttempt,
              isCompleted, callbacks, configRead, call, ws>>

VARIABLES
  env,        \* process.env: the PRIVATEKEY entry and the PRIVATEKEY_n entries
  epc,        \* position in the loading of config/env.chain.js and of the wallets
  wallets     \* what loadWallets returned: the keys of the wallets, in order

envVars == <<env, epc, wallets>>

VARIABLES
  cfgChain,   \* the contract: what getConfig() and getConfig(uint256)(id) answer
  cfgPc,      \* position in getConfigWithFallback
  cfgId,      \* index into fallbackIds of the loop of getConfigWithFallback
  cfgReads,   \* the reads getConfigWithFallback has made, in order
  cfgResult   \* what getConfigWithFallback returned, or None

cfgVars == <<cfgChain, cfgPc, cfgId, cfgReads, cfgResult>>

VARIABLES
  promptBaseFee,       \* baseFee of the quote main got before its prompts, in wei
  priorityFeePercent,  \* answers.priorityFeePercent, a number the prompt accepted
  maxGasPrice,         \* answers.maxGasPrice, the decimal string typed at the prompt
  feePc,               \* position: the prompt, its validation, lines 342-346
  feeParams            \* maxPriorityFeePerGas and maxFeePerGas of lines 345-346, or None

feeVars == <<promptBaseFee, priorityFeePercent, maxGasPrice, feePc, feeParams>>

auxVars == <<cfgVars, feeVars>>

vars == <<gasVars, mainVars, envVars, auxVars>>

\* ------------------------------------------- JavaScript numbers and timers

\* the values the interval computations of main.js meet: undefined, NaN, a string
\* of digits, a number, and a number above 2^31 - 1
Undefined == [t |-> "undefined", v |-> 0]
NaN == [t |-> "NaN", v |-> 0]
Str(n) == [t |-> "string", v |-> n]
Num(n) == [t |-> "number", v |-> n]
Huge == [t |-> "huge", v |-> 0]

\* parseInt: the number a string of digits denotes, NaN for undefined
ParseInt(x) ==
  CASE x.t = "string" -> Num(x.v)
    [] x.t \in {"number", "huge"} -> x
    [] OTHER -> NaN

\* x * 1000
TimesThousand(x) ==
  CASE x.t = "number" -> IF x.v > TIMEOUT_MAX \div 1000 THEN Huge ELSE Num(x.v * 1000)
    [] x.t = "huge" -> Huge
    [] OTHER -> NaN

\* a default parameter value applies to an argument that is undefined, and to no other
DefaultParameter(arg, dflt) == IF arg.t = "undefined" THEN dflt ELSE arg

\* setTimeout(f, delay): Node.js sets a delay that is NaN, less than 1 or greater
\* than TIMEOUT_MAX to 1 millisecond
TimeoutDelay(delay) ==
  IF delay.t = "number" /\ delay.v >= 1 /\ delay.v <= TIMEOUT_MAX THEN delay.v ELSE 1

\* -------------------------------------------------- the run: inputs, chain

MintModes == {"Instant Mint", "Monitoring Mode", "Scheduled Mint"}
MintMethods == {"auto", "fourParams", "twoParams"}
Prices == {3}
MaxFees == {2}
Wallets == 0 .. nWallets - 1
Monitoring == mintMode = "Monitoring Mode"

\* what the run has done with one wallet: in the pass over the wallets under way,
\* the outcome of its preflight, the balance that preflight read and the
\* executeMint calls made for it; and over the run, its units that succeeded and
\* failed, the transactions a node accepted from it with the txOptions they were
\* sent with, and those of earlier calls that are not mined yet
NoWalletState ==
  [pre |-> "none", read |-> 0, calls |-> 0, ok |-> 0, failed |-> 0, subs |-> 0,
   sent |-> {}, pending |-> 0]

\* txOptions whose priority fee is the max fee, which nft.js does not build
TxOptionsFeeTwice(p) ==
  [gasLimit |-> gasLimit, maxFeePerGas |-> maxFeePerGas,
   maxPriorityFeePerGas |-> maxFeePerGas, value |-> p]

\* nft.js:119-124  txOptions
TxOptions(p) ==
  [gasLimit |-> gasLimit, maxFeePerGas |-> maxFeePerGas,
   maxPriorityFeePerGas |-> maxPriorityFeePerGas, value |-> p]

\* an executeMint call: the call of its unit it is ("first", "second"), its wallet,
\* mintVariant and txOptions, the contract calls it has made, what it returned
\* (with the properties of the returned object), and the error the unit's first
\* call returned when it is the second
NoCall ==
  [stage |-> "none", wallet |-> 0, variant |-> "none",
   txOptions |-> [gasLimit |-> 0, maxFeePerGas |-> 0, maxPriorityFeePerGas |-> 0, value |-> 0],
   attempts |-> <<>>, result |-> "none", successVariant |-> "none", error |-> "none",
   returned |-> {}, prior |-> "none"]

\* the run has not started
MainIdle ==
  /\ mintMode = "none" /\ mintMethod = "none" /\ nWallets = 0 /\ mintAmount = 0
  /\ gasLimit = 0 /\ maxFeePerGas = 0 /\ maxPriorityFeePerGas = 0
  /\ price = None /\ config = [startTime |-> 0, endTime |-> 0, price |-> 0]
  /\ gasCost = 0 /\ monitorInterval = Undefined
  /\ now = 0 /\ balance = <<>> /\ pc = "idle" /\ i = 0 /\ j = 0
  /\ isFirstAttempt = TRUE /\ isCompleted = FALSE
  /\ callbacks = 0 /\ configRead = "none" /\ call = NoCall /\ ws = <<>>

\* main.js:445, main.js:99  price.mul(mintAmount).add(maxFeePerGas.mul(gasLimit))
RequiredAmount(p) == p * mintAmount + maxFeePerGas * gasLimit

\* a preflight that also turns away a balance equal to the required amount
InsufficientLte(bal, required) == bal <= required

\* main.js:447, main.js:101  balance.lt(requiredAmount)
Insufficient(bal, required) == bal < required

\* what a node reserves for one transaction: its value and gasLimit x maxFeePerGas
UnitCost(p) == p + maxFeePerGas * gasLimit

\* what a mined transaction pays for gas (receipt.gasUsed x effectiveGasPrice): at
\* most gasLimit x maxFeePerGas
GasCosts == {maxFeePerGas * gasLimit, (maxFeePerGas * gasLimit) \div 2}

\* the transactions among the contract calls of an executeMint call that are not mined
PendingIn(attempts) ==
  Cardinality({k \in DOMAIN attempts : attempts[k].status = "pending"})

\* the transactions of wallet w that are submitted and not mined
PendingOf(w) == ws[w].pending + (IF call.wallet = w THEN PendingIn(call.attempts) ELSE 0)

\* a node accepts a transaction only from an account that can pay for it and for
\* those it has pending
CanFund(w) == balance[w] >= (PendingOf(w) + 1) * UnitCost(call.txOptions.value)

\* the outcomes of a contract call that submits a transaction (nft.js:131-139,
\* 163-167): accepted, or rejected as reverted, as unfunded or for another reason
SubmitOutcomes(w) ==
  (IF CanFund(w) THEN {"ok"} ELSE {"INSUFFICIENT_FUNDS"})
    \cup {"CALL_EXCEPTION", "NETWORK_ERROR"}

\* the outcomes of tx.wait() (nft.js:149): a receipt with status 1, a receipt with
\* status 0, a rejection with CALL_EXCEPTION (how ethers v5 reports a receipt of
\* status 0), or a rejection for another reason that leaves the transaction pending
WaitOutcomes == {"status1", "status0", "CALL_EXCEPTION", "NETWORK_ERROR"}

\* main.js:241-318  the prompts of main: none is named monitorInterval, so
\* answers.monitorInterval is undefined
AnswersMonitorInterval == Undefined

\* main.js:357  parseInt(answers.monitorInterval) * 1000
MainMonitorInterval == TimesThousand(ParseInt(AnswersMonitorInterval))

\* main.js:78  monitorInterval = DEFAULT_MONITOR_INTERVAL
StartMonitoringInterval(arg) == DefaultParameter(arg, Num(DEFAULT_MONITOR_INTERVAL))

\* ----------------------------------------------------------- initial state

InitMain ==
  /\ mintMode \in MintModes
  /\ mintMethod \in (IF Monitoring THEN {"auto"} ELSE MintMethods)
  /\ nWallets \in 1..MaxWallets
  /\ mintAmount \in 1..MaxMintAmount
  /\ gasLimit = MinGasLimit
  /\ maxFeePerGas \in MaxFees
  /\ maxPriorityFeePerGas = 1
  /\ \E p \in Prices, s \in 0..MaxTime :
       /\ \E e \in s..MaxTime :
            /\ config = [startTime |-> s, endTime |-> e, price |-> p]
            /\ mintMode = "Instant Mint" => s = 0 /\ e = MaxTime
            /\ mintMode = "Scheduled Mint" => e = MaxTime
       /\ price = IF Monitoring THEN None ELSE Some(p)
       /\ balance \in [Wallets ->
            {RequiredAmount(p) - 1, RequiredAmount(p), mintAmount * UnitCost(p)}]
  /\ gasCost \in GasCosts
  /\ monitorInterval = IF Monitoring THEN StartMonitoringInterval(MainMonitorInterval)
                                    ELSE Undefined
  /\ now = 0
  /\ pc = "main" /\ i = 0 /\ j = 0
  /\ isFirstAttempt = TRUE /\ isCompleted = FALSE /\ callbacks = 0
  /\ configRead = "none"
  /\ call = NoCall
  /\ ws = [w \in Wallets |-> NoWalletState]

\* ------------------------------------------- process.env (part_000)

\* what an entry of process.env can hold: nothing, a private key ethers accepts,
\* a value without the 0x prefix, a 0x-prefixed value that ethers.Wallet rejects
EnvValues == {"absent", "valid", "noPrefix", "badKey"}

\* the keys of process.env that start with PRIVATEKEY: 0 stands for PRIVATEKEY,
\* n for PRIVATEKEY_n
EnvKeys == 0..MaxKeys

NoEnv == [k \in EnvKeys |-> "absent"]

\* the wallets are not being loaded
EnvIdle == env = NoEnv /\ epc = "idle" /\ wallets = <<>>

\* nft.js:15  fallbackIds, reversed
fallbackIdsReversed == <<3, 2, 1, 0>>

\* nft.js:15  fallbackIds
fallbackIds == <<0, 1, 2, 3>>

\* getConfigWithFallback is not running
CfgIdle ==
  /\ cfgChain = [plain |-> 0, byId |-> [id \in 0..3 |-> 0]]
  /\ cfgPc = "idle" /\ cfgId = 0 /\ cfgReads = <<>> /\ cfgResult = None

\* an amount of wei (a BigNumber), held as whole gwei and the wei below one gwei
Wei(g, w) == [g |-> g, w |-> w]

\* a decimal string: its whole part, the digits after the point read as a number,
\* and how many they are (0 when the string has no point)
Decimal(whole, frac, digits) == [whole |-> whole, frac |-> frac, digits |-> digits]

\* main has not reached its prompts
FeeIdle ==
  /\ promptBaseFee = Wei(0, 0) /\ priorityFeePercent = 0
  /\ maxGasPrice = Decimal(0, 0, 0) /\ feePc = "idle" /\ feeParams = None

AuxIdle == CfgIdle /\ FeeIdle

\* ------------------------------------------------------------- getGasPrice

BaseFees == 0..MaxFeeReading
GasPrices == 0..(2 * MaxFeeReading + 1)

\* the lesser of the two, which main.js does not compute
SuggestedMaxFeeLt(baseFee, currentGasPrice) ==
  IF currentGasPrice < 2 * baseFee THEN currentGasPrice ELSE 2 * baseFee

\* main.js:190-192  the greater of the current gas price and base fee * 2
SuggestedMaxFee(baseFee, currentGasPrice) ==
  IF currentGasPrice > 2 * baseFee THEN currentGasPrice ELSE 2 * baseFee

\* a return of the defaults from an attempt that read both values
LiveQuoteIsDefaults(baseFee, currentGasPrice) ==
  [baseFee |-> DefaultBaseFee, currentGasPrice |-> DefaultGasPrice,
   suggestedMaxFee |-> DefaultGasPrice]

\* main.js:199-203
LiveQuote(baseFee, currentGasPrice) ==
  [baseFee |-> baseFee, currentGasPrice |-> currentGasPrice,
   suggestedMaxFee |-> SuggestedMaxFee(baseFee, currentGasPrice)]

\* defaults with the base fee and the gas price exchanged
DefaultQuoteSwapped ==
  [baseFee |-> DefaultGasPrice, currentGasPrice |-> DefaultBaseFee,
   suggestedMaxFee |-> DefaultGasPrice]

\* defaults whose suggested max fee is the default base fee
DefaultQuoteLowMaxFee ==
  [baseFee |-> DefaultBaseFee, currentGasPrice |-> DefaultGasPrice,
   suggestedMaxFee |-> DefaultBaseFee]

\* main.js:213-222  the conservative defaults
DefaultQuote ==
  [baseFee |-> DefaultBaseFee, currentGasPrice |-> DefaultGasPrice,
   suggestedMaxFee |-> DefaultGasPrice]

\* main.js:205  if (i === 2) throw retryError
LastAttempt(attempt) == attempt = MaxGasAttempts - 1

\* an outer catch that lets the error of the last attempt through
OuterCatchRethrows ==
  /\ gpc' = "thrown"
  /\ gQuote' = None

\* main.js:210-223  the outer catch returns the defaults
OuterCatch ==
  /\ gpc' = "done"
  /\ gQuote' = Some(DefaultQuote)

\* main.js:204-208  the catch of one attempt
AttemptFailed ==
  /\ gFailed' = gFailed + 1
  /\ gBaseFee' = None
  /\ IF LastAttempt(gi)
       THEN OuterCatch /\ UNCHANGED <<gi, gWaits>>
       ELSE /\ gpc' = "wait"
            /\ UNCHANGED <<gi, gWaits, gQuote>>

\* main.js:182-187  provider.getFeeData(): it throws, or it comes back without a
\* base fee, or it carries lastBaseFeePerGas
GetFeeData ==
  /\ UNCHANGED <<mainVars, envVars, auxVars>>
  /\ gpc = "feeData"
  /\ gi < MaxGasAttempts
  /\ gReads' = gReads + 1
  /\ \/ \E baseFee \in BaseFees :
          /\ gBaseFee' = Some(baseFee)
          /\ gpc' = "gasPrice"
          /\ UNCHANGED <<gi, gFailed, gWaits, gLive, gQuote>>
     \/ \E r \in {"throws", "incomplete"} :
          AttemptFailed /\ UNCHANGED gLive

\* main.js:188-203  provider.getGasPrice(): it throws or returns the current price
GetGasPrice ==
  /\ UNCHANGED <<mainVars, envVars, auxVars>>
  /\ gpc = "gasPrice"
  /\ \/ \E currentGasPrice \in GasPrices :
          /\ gLive' = Some(LiveQuote(Val(gBaseFee), currentGasPrice))
          /\ gQuote' = Some(LiveQuote(Val(gBaseFee), currentGasPrice))
          /\ gpc' = "done"
          /\ UNCHANGED <<gi, gBaseFee, gReads, gFailed, gWaits>>
     \/ AttemptFailed /\ UNCHANGED <<gReads, gLive>>

\* main.js:206-207 and the i++ of line 180
RetryWait ==
  /\ UNCHANGED <<mainVars, envVars, auxVars>>
  /\ gpc = "wait"
  /\ gWaits' = gWaits + 1
  /\ gi' = gi + 1
  /\ gpc' = "feeData"
  /\ UNCHANGED <<gBaseFee, gReads, gFailed, gLive, gQuote>>

\* getGasPrice is not running
GasIdle ==
  /\ gpc = "idle" /\ gi = 0 /\ gBaseFee = None /\ gReads = 0
  /\ gFailed = 0 /\ gWaits = 0 /\ gLive = None /\ gQuote = None

\* main.js:177  getGasPrice is entered
InitGas ==
  /\ MainIdle
  /\ EnvIdle
  /\ AuxIdle
  /\ gpc = "feeData" /\ gi = 0 /\ gBaseFee = None /\ gReads = 0
  /\ gFailed = 0 /\ gWaits = 0 /\ gLive = None /\ gQuote = None

NextGas == GetFeeData \/ GetGasPrice \/ RetryWait

SpecGas == InitGas /\ [][NextGas]_vars

\* ------------------------------------- config/env.chain.js: the wallets

\* part_000:35, 65  privateKey.startsWith("0x")
StartsWith0x(v) == v \in {"valid", "badKey"}

\* part_000:56-68  validateEnv passes when PRIVATEKEY is set and 0x-prefixed
EnvIsValid == env[0] # "absent" /\ StartsWith0x(env[0])

\* part_000:25-26  Object.keys(process.env).filter(key.startsWith("PRIVATEKEY"))
WalletKeys == {k \in EnvKeys : env[k] # "absent"}

\* part_000:27-31, 34  walletKeys[0] after the sort by parseInt(key.split("_")[1]):
\* the least suffix; with PRIVATEKEY among the keys the comparator returns NaN
\* and the order the sort leaves is the engine's choice
FirstWalletKeys ==
  IF 0 \in WalletKeys
    THEN WalletKeys
    ELSE {k \in WalletKeys : \A h \in WalletKeys : k <= h}

\* part_000:33-47  the wallet of the first key, when its value is 0x-prefixed
\* and ethers.Wallet accepts it
WalletsOfFirst(k) == IF env[k] = "valid" THEN <<k>> ELSE <<>>

\* part_000:70-71  validateEnv() runs when the module is loaded and throws on an
\* invalid environment
ValidateEnv ==
  /\ epc = "validateEnv"
  /\ epc' = IF EnvIsValid THEN "loadWallets" ELSE "thrown"
  /\ UNCHANGED <<env, wallets, gasVars, mainVars, auxVars>>

\* part_000:22-54, main.js:230  loadWallets
LoadWallets ==
  /\ epc = "loadWallets"
  /\ IF WalletKeys = {}
       THEN wallets' = <<>>
       ELSE \E k \in FirstWalletKeys : wallets' = WalletsOfFirst(k)
  /\ epc' = "loaded"
  /\ UNCHANGED <<env, gasVars, mainVars, auxVars>>

InitEnv ==
  /\ GasIdle
  /\ MainIdle
  /\ AuxIdle
  /\ env \in [EnvKeys -> EnvValues]
  /\ epc = "validateEnv"
  /\ wallets = <<>>

NextEnv == ValidateEnv \/ LoadWallets

SpecEnv == InitEnv /\ [][NextEnv]_vars

\* ------------------------------ getConfigWithFallback (nft.js:7-28)

\* what the contract answers to a read of its config: 0 when the call reverts (the
\* contract has no function of that signature, or no config of that id), or one
\* of the configs 1..MaxConfigValue
ConfigAnswers == 0..MaxConfigValue

\* nft.js:10  contract.getConfig()
PlainRead == [fn |-> "getConfig()", id |-> 0]

\* nft.js:18  contract["getConfig(uint256)"](id)
IdRead(id) == [fn |-> "getConfig(uint256)", id |-> id]

\* the answer of the contract to a read
Answer(read) ==
  IF read.fn = "getConfig()" THEN cfgChain.plain ELSE cfgChain.byId[read.id]

\* nft.js:23-27  after the loop fallbackConfig is still undefined (a read that
\* assigns it returns at once), so the function throws
AfterLoop ==
  /\ cfgPc' = "thrown"
  /\ cfgResult' = None

\* nft.js:8-13  the read without argument
GetConfig ==
  /\ cfgPc = "getConfig"
  /\ cfgReads' = Append(cfgReads, PlainRead)
  /\ IF Answer(PlainRead) # 0
       THEN /\ cfgResult' = Some([config |-> Answer(PlainRead), variant |-> "twoParams"])
            /\ cfgPc' = "returned"
            /\ UNCHANGED cfgId
       ELSE /\ cfgPc' = "fallback"
            /\ cfgId' = 1
            /\ UNCHANGED cfgResult
  /\ UNCHANGED <<cfgChain, gasVars, mainVars, envVars, feeVars>>

\* nft.js:16-21  one turn of the loop over fallbackIds
GetConfigById ==
  /\ cfgPc = "fallback"
  /\ LET read == IdRead(fallbackIds[cfgId]) IN
       /\ cfgReads' = Append(cfgReads, read)
       /\ IF Answer(read) # 0
            THEN /\ cfgResult' = Some([config |-> Answer(read), variant |-> "fourParams"])
                 /\ cfgPc' = "returned"
                 /\ UNCHANGED cfgId
            ELSE /\ cfgId' = cfgId + 1
                 /\ IF cfgId < Len(fallbackIds)
                      THEN UNCHANGED <<cfgPc, cfgResult>>
                      ELSE AfterLoop
  /\ UNCHANGED <<cfgChain, gasVars, mainVars, envVars, feeVars>>

InitCfg ==
  /\ GasIdle
  /\ MainIdle
  /\ EnvIdle
  /\ FeeIdle
  /\ cfgChain \in [plain : ConfigAnswers, byId : [0..3 -> ConfigAnswers]]
  /\ cfgPc = "getConfig" /\ cfgId = 0 /\ cfgReads = <<>> /\ cfgResult = None

NextCfg == GetConfig \/ GetConfigById

SpecCfg == InitCfg /\ [][NextCfg]_vars

\* ------------------ the fee parameters of main (main.js:296-322, 342-346)

\* wei in one gwei: the unit 'gwei' of formatUnits and parseUnits
WeiPerGwei == 10^9

RECURSIVE Pow10(_)
Pow10(n) == IF n = 0 THEN 1 ELSE 10 * Pow10(n - 1)

\* BigNumber.lte
WeiLe(x, y) == x.g < y.g \/ (x.g = y.g /\ x.w <= y.w)

\* carries whole gwei out of the wei part
Normalize(g, w) == Wei(g + w \div WeiPerGwei, w % WeiPerGwei)

\* main.js:344  baseFee.mul(priorityFeePercent).div(100): the floor of
\* b x percent / 100, taken part by part so that no product exceeds 2^31
MulDiv100(b, percent) ==
  Normalize((b.g * percent) \div 100,
            ((b.g * percent) % 100) * (WeiPerGwei \div 100)
              + (b.w \div 100) * percent + ((b.w % 100) * percent) \div 100)

\* formatFixed of ethers: the zeros at the end of the fraction are dropped, one
\* digit is kept
RECURSIVE StripZeros(_, _)
StripZeros(frac, digits) ==
  IF digits > 1 /\ frac % 10 = 0 THEN StripZeros(frac \div 10, digits - 1)
  ELSE [frac |-> frac, digits |-> digits]

\* ethers.utils.formatUnits(x, 'gwei'): "<whole>.<fraction>"
FormatUnits(x) ==
  LET f == StripZeros(x.w, 9) IN Decimal(x.g, f.frac, f.digits)

\* ethers.utils.parseUnits(d, 'gwei'): the fraction is padded with zeros to 9 digits
ParseUnits(d) == Wei(d.whole, d.frac * Pow10(9 - d.digits))

\* the bits a double has below the binary point for a number whose whole part is
\* whole: 52 less the exponent. Below 2^23 there are 30 or more.
FracBits(whole) == IF whole < 2^23 THEN 30 ELSE 29

\* the multiple of 2^-29 nearest to w x 10^-9, as a count of 2^-29: w x 2^20 / 5^9
\* rounded (no tie occurs, 5^9 being odd), taken part by part so that no product
\* exceeds 2^31
RoundTo29Bits(w) ==
  LET q    == w \div 5^9
      r    == w % 5^9
      t1   == (r * 1024) \div 5^9
      rem1 == (r * 1024) % 5^9
      t2   == (rem1 * 1024) \div 5^9
      rem2 == (rem1 * 1024) % 5^9
  IN q * 2^20 + t1 * 1024 + t2 + (IF 2 * rem2 > 5^9 THEN 1 ELSE 0)

\* parseFloat of a decimal string: the double nearest to it, held as its whole part
\* and the rank of its fraction among the doubles of that whole part. With 30 bits
\* or more below the point, multiples of 10^-9 that differ give doubles that differ,
\* in the same order, and the rank is the fraction in units of 10^-9; with 29 bits
\* it is the fraction rounded to a multiple of 2^-29.
ParseFloat(d) ==
  LET w == ParseUnits(d).w IN
    IF FracBits(d.whole) >= 30 THEN [whole |-> d.whole, rank |-> w]
    ELSE IF RoundTo29Bits(w) = 2^29 THEN [whole |-> d.whole + 1, rank |-> 0]
    ELSE [whole |-> d.whole, rank |-> RoundTo29Bits(w)]

\* num < other, of two doubles
FloatLt(x, y) == x.whole < y.whole \/ (x.whole = y.whole /\ x.rank < y.rank)

\* main.js:301-307  validate of the prompt maxGasPrice
MaxGasPriceIsValid(input, baseFee) ==
  ~FloatLt(ParseFloat(input), ParseFloat(FormatUnits(baseFee)))

\* the base fees of a quote: zero, an everyday one, and one above 2^23 gwei, each
\* with and without wei below the gwei
BaseFeeQuotes ==
  {Wei(g, w) : g \in {0, 50, HugeGwei}, w \in 0..MaxFracWei \cup {WeiPerGwei \div 2}}

\* the decimal strings typed as maxGasPrice: "<whole>", "<whole>.5" and
\* "<whole>.00000000n"
MaxGasPriceInputs ==
  {Decimal(g, 0, 0) : g \in {0, 50, 100, HugeGwei}}
    \cup {Decimal(g, 5, 1) : g \in {0, 50, 100, HugeGwei}}
    \cup {Decimal(g, n, 9) : g \in {0, 50, 100, HugeGwei}, n \in 1..MaxFracWei}

\* main.js:313-321  the whole percentages the prompt priorityFeePercent accepts
Percents == {1, 10, 33, 100}

\* main.js:296-309  the prompt maxGasPrice: inquirer runs validate on what was typed
ValidateMaxGasPrice ==
  /\ feePc = "prompt"
  /\ feePc' = IF MaxGasPriceIsValid(maxGasPrice, promptBaseFee) THEN "accepted"
                                                                ELSE "rejected"
  /\ UNCHANGED <<promptBaseFee, priorityFeePercent, maxGasPrice, feeParams>>
  /\ UNCHANGED <<gasVars, mainVars, envVars, cfgVars>>

\* main.js:304-305  validate returned a message: inquirer asks again
AskAgain ==
  /\ feePc = "rejected"
  /\ maxGasPrice' \in MaxGasPriceInputs
  /\ feePc' = "prompt"
  /\ UNCHANGED <<promptBaseFee, priorityFeePercent, feeParams>>
  /\ UNCHANGED <<gasVars, mainVars, envVars, cfgVars>>

\* main.js:342-346  maxPriorityFeePerGas and maxFeePerGas
ComputeFees ==
  /\ feePc = "accepted"
  /\ LET priorityFeeGwei == FormatUnits(MulDiv100(promptBaseFee, priorityFeePercent))
     IN feeParams' = Some([maxPriorityFeePerGas |-> ParseUnits(priorityFeeGwei),
                           maxFeePerGas |-> ParseUnits(maxGasPrice)])
  /\ feePc' = "computed"
  /\ UNCHANGED <<promptBaseFee, priorityFeePercent, maxGasPrice>>
  /\ UNCHANGED <<gasVars, mainVars, envVars, cfgVars>>

InitFee ==
  /\ GasIdle
  /\ MainIdle
  /\ EnvIdle
  /\ CfgIdle
  /\ promptBaseFee \in BaseFeeQuotes
  /\ priorityFeePercent \in Percents
  /\ maxGasPrice \in MaxGasPriceInputs
  /\ feePc = "prompt"
  /\ feeParams = None

NextFee == ValidateMaxGasPrice \/ AskAgain \/ ComputeFees

SpecFee == InitFee /\ [][NextFee]_vars

\* ---------------------------------------------------------------- main.js

\* main.js:356-369, 420-421  the branch on answers.mintMode
MainDispatch ==
  /\ pc = "main"
  /\ pc' = CASE mintMode = "Monitoring Mode" -> "tick"
             [] mintMode = "Scheduled Mint" -> "scheduled"
             [] OTHER -> "preflight"
  /\ UNCHANGED <<gasVars, envVars, auxVars, paramVars, configRead, price, now, balance, i, j,
                 isFirstAttempt, isCompleted, callbacks, call, ws>>

\* main.js:426-433  timeLeft = startTime - currentTime, and the time at which
\* setTimeout(resolve, timeLeft * 1000) fires
ScheduledStart(currentTime, startTime) ==
  IF currentTime < startTime
    THEN currentTime
           + TimeoutDelay(TimesThousand(Num(startTime - currentTime))) \div 1000
    ELSE currentTime

\* main.js:421-437  Scheduled Mint: wait for startTime; a failed read starts at once
ScheduledWait ==
  /\ pc = "scheduled"
  /\ \/ /\ configRead' = "ok"
        /\ now' = ScheduledStart(now, config.startTime)
     \/ /\ configRead' = "error"
        /\ now' = now
  /\ pc' = "preflight"
  /\ UNCHANGED <<gasVars, envVars, auxVars, paramVars, price, balance, i, j,
                 isFirstAttempt, isCompleted, callbacks, call, ws>>

\* an exception leaves the wallet loop: main's catch of line 575 ends the run;
\* in startMonitoring the catch of monitorMintStart (line 60) returns false
LoopThrows ==
  /\ pc' = (IF Monitoring THEN "sleep" ELSE "aborted")

\* main.js:440, 573  the wallet loop has run through the list; main.js:59, 152-154
\* in startMonitoring the callback has resolved and monitorMintStart returns true
LoopEnd ==
  /\ pc' = "done"
  /\ isCompleted' = (IF Monitoring THEN TRUE ELSE isCompleted)

\* main.js:440, main.js:94  i++ and the test i < wallets.length
NextWallet ==
  /\ i' = i + 1
  /\ IF i + 1 < nWallets
       THEN pc' = "preflight" /\ UNCHANGED isCompleted
       ELSE LoopEnd

\* executeMint is entered (nft.js:104-124): the call under way is replaced, and
\* what the call before it left unmined stays pending on the chain
StartCall(stage, variant) ==
  /\ call' = [NoCall EXCEPT !.stage = stage, !.wallet = i, !.variant = variant,
                            !.txOptions = TxOptions(Val(price)),
                            !.prior = (IF stage = "second" THEN call.error ELSE "none")]
  /\ pc' = "submit"

\* the calls, and the transactions not mined, of each wallet once a call has begun
CallBegun(state) ==
  [w \in Wallets |->
     [state[w] EXCEPT
        !.calls = @ + (IF w = i THEN 1 ELSE 0),
        !.pending = @ + (IF w = call.wallet THEN PendingIn(call.attempts) ELSE 0)]]

\* main.js:461-469, 513-518, main.js:111-116  the variant of a unit's first call
FirstVariant ==
  IF Monitoring \/ mintMethod = "auto" THEN "fourParams" ELSE mintMethod

\* a preflight whose verdict does not stop the wallet's first executeMint call
SkipWalletMintsAnyway ==
  /\ j' = 0
  /\ StartCall("first", FirstVariant)
  /\ UNCHANGED <<i, isCompleted>>

\* main.js:451, main.js:105  continue
SkipWallet ==
  /\ NextWallet
  /\ UNCHANGED <<j, call>>

\* main.js:441-458, main.js:95-111  the balance preflight of wallet i; a wallet
\* that passes enters its unit loop (mintAmount is at least 1)
Preflight ==
  /\ pc = "preflight"
  /\ \/ /\ LoopThrows
        /\ UNCHANGED <<i, j, ws, call, isCompleted>>
     \/ IF Insufficient(balance[i], RequiredAmount(Val(price)))
          THEN /\ SkipWallet
               /\ ws' = [ws EXCEPT ![i].pre = "insufficient", ![i].read = balance[i]]
          ELSE /\ j' = 0
               /\ StartCall("first", FirstVariant)
               /\ ws' = CallBegun([ws EXCEPT ![i].pre = "passed", ![i].read = balance[i]])
               /\ UNCHANGED <<i, isCompleted>>
  /\ UNCHANGED <<gasVars, envVars, auxVars, paramVars, configRead, price, now, balance, isFirstAttempt, callbacks>>

\* ------------------------------------------- executeMint (nft.js:104-188)

\* a fallback after a call-revert of either variant
FallsBackFromAnyVariant(variant, err) == err = "CALL_EXCEPTION"

\* nft.js:161  mintVariant === "fourParams" && err.code === ethers.errors.CALL_EXCEPTION
FallsBack(variant, err) == variant = "fourParams" /\ err = "CALL_EXCEPTION"

\* an outer catch that throws the error on to the caller
FailureRethrown(c, err) == [c EXCEPT !.result = "thrown", !.error = err]

\* nft.js:172-187  the outer catch: return { error: err.message }
Failure(c, err) ==
  [c EXCEPT !.result = "error", !.error = err, !.returned = {"error"}]

\* nft.js:158, 168  return { tx, successVariant }
Success(c, variant) ==
  [c EXCEPT !.result = "success", !.successVariant = variant,
            !.returned = {"tx", "successVariant"}]

\* nft.js:131-139, 163-167  what the tx of a result holds of the transaction: the
\* response of the submission, with its hash and without the data of the receipt
TxResponse == {"tx.hash"}

\* one contract call mintPublic(...) with its txOptions and what the node answered;
\* an accepted one is a transaction, pending until it is mined
Attempt(variant, opts, outcome) ==
  [variant |-> variant, opts |-> opts, outcome |-> outcome,
   status |-> (IF outcome = "ok" THEN "pending" ELSE "none"), wait |-> "none"]

\* the chain mines a transaction of wallet w: it pays its gas, and its value if it
\* succeeds
Charge(w, status) ==
  [balance EXCEPT ![w] = @ - gasCost - (IF status = "success" THEN Val(price) ELSE 0)]

\* nft.js:128-140  the mint call of the requested variant
Submit ==
  /\ pc = "submit"
  /\ \E r \in SubmitOutcomes(i) :
       LET c == [call EXCEPT !.attempts = Append(@, Attempt(call.variant, call.txOptions, r))]
       IN IF r = "ok"
            THEN /\ call' = c
                 /\ ws' = [ws EXCEPT ![i].subs = @ + 1,
                                     ![i].sent = @ \cup {call.txOptions}]
                 /\ pc' = "wait"
            ELSE /\ IF FallsBack(call.variant, r)
                      THEN pc' = "fallback" /\ call' = c
                      ELSE pc' = "ret" /\ call' = Failure(c, r)
                 /\ UNCHANGED ws
  /\ UNCHANGED <<gasVars, envVars, auxVars, paramVars, configRead, price, now, balance, i, j,
                 isFirstAttempt, isCompleted, callbacks>>

\* nft.js:149-158  await tx.wait() and the check of receipt.status
AwaitReceipt ==
  /\ pc = "wait"
  /\ \E r \in WaitOutcomes :
       LET k == Len(call.attempts)
           mined(st) == [call EXCEPT !.attempts[k].status = st, !.attempts[k].wait = r]
       IN CASE r = "status1" ->
                 /\ balance' = Charge(i, "success")
                 /\ call' = Success(mined("success"), call.variant)
                 /\ pc' = "ret"
            [] r = "status0" ->
                 /\ balance' = Charge(i, "failed")
                 /\ call' = Failure(mined("failed"), "RECEIPT_STATUS_0")
                 /\ pc' = "ret"
            [] r = "CALL_EXCEPTION" ->
                 /\ balance' = Charge(i, "failed")
                 /\ IF FallsBack(call.variant, r)
                      THEN pc' = "fallback" /\ call' = mined("failed")
                      ELSE pc' = "ret" /\ call' = Failure(mined("failed"), r)
            [] OTHER ->
                 /\ balance' = balance
                 /\ call' = Failure(mined("pending"), r)
                 /\ pc' = "ret"
  /\ UNCHANGED <<gasVars, envVars, auxVars, paramVars, configRead, price, now, i, j,
                 isFirstAttempt, isCompleted, callbacks, ws>>

\* a fallback sent with options built anew, the priority fee from the max fee
FallbackOptionsFeeTwice == TxOptionsFeeTwice(Val(price))

\* nft.js:163-167  the fallback is sent with the txOptions of the first call
FallbackOptions == call.txOptions

\* nft.js:163  mintPublic(address,uint256)
FallbackVariant == "twoParams"

\* nft.js:168  return { tx, successVariant: "twoParams" }: the receipt is not awaited
FallbackReturns(c) == Success(c, "twoParams")

\* nft.js:160-170  the twoParams fallback
FallbackSubmit ==
  /\ pc = "fallback"
  /\ \E r \in SubmitOutcomes(i) :
       LET c == [call EXCEPT
                   !.attempts = Append(@, Attempt(FallbackVariant, FallbackOptions, r))]
       IN IF r = "ok"
            THEN /\ call' = FallbackReturns(c)
                 /\ ws' = [ws EXCEPT ![i].subs = @ + 1,
                                     ![i].sent = @ \cup {FallbackOptions}]
            ELSE /\ call' = Failure(c, r)
                 /\ UNCHANGED ws
  /\ pc' = "ret"
  /\ UNCHANGED <<gasVars, envVars, auxVars, paramVars, configRead, price, now, balance, i, j,
                 isFirstAttempt, isCompleted, callbacks>>

\* the chain mines a transaction that no tx.wait() of the program is waiting for
MineTx ==
  /\ \E w \in Wallets, st \in {"success", "failed"} :
       /\ \/ /\ ws[w].pending > 0
             /\ ws' = [ws EXCEPT ![w].pending = @ - 1]
             /\ UNCHANGED call
          \/ /\ call.wallet = w
             /\ \E k \in DOMAIN call.attempts :
                  /\ call.attempts[k].status = "pending"
                  /\ ~(pc = "wait" /\ k = Len(call.attempts))
                  /\ call' = [call EXCEPT !.attempts[k].status = st]
             /\ UNCHANGED ws
       /\ balance' = Charge(w, st)
  /\ UNCHANGED <<gasVars, envVars, auxVars, paramVars, configRead, price, now, pc, i, j,
                 isFirstAttempt, isCompleted, callbacks>>

\* -------------------------------------------- the unit loop after a call

\* a pause after every wallet, the last one too
WalletEndAlwaysPauses == pc' = "pauseWallet" /\ UNCHANGED <<i, isCompleted>>

\* main.js:568-570, main.js:145-147  the unit loop of wallet i is over: a pause
\* unless it is the last wallet, and the i++ of the wallet loop
WalletEnd ==
  IF i < nWallets - 1
    THEN pc' = "pauseWallet" /\ UNCHANGED <<i, isCompleted>>
    ELSE NextWallet

\* main.js:562-564, main.js:140-142  a pause unless it was the last unit, and the
\* j++ of the unit loop
NextUnit ==
  IF j < mintAmount - 1
    THEN pc' = "pauseUnit" /\ UNCHANGED <<i, j, isCompleted>>
    ELSE j' = j + 1 /\ WalletEnd

\* a break that goes on to the wallet's next unit
BreakGoesOn == NextUnit

\* a break that leaves the wallet loop too
BreakEndsRun ==
  /\ LoopEnd
  /\ UNCHANGED <<i, j>>

\* main.js:546  break
Break ==
  /\ WalletEnd
  /\ UNCHANGED j

\* main.js:461, 475  the auto method calls executeMint again with twoParams when
\* the fourParams call returned an error
AutoRetries ==
  mintMethod = "auto" /\ call.stage = "first" /\ call.result = "error"

\* main.js:460-565  what main does with the result of executeMint
HandleResult ==
  /\ pc = "ret"
  /\ ~Monitoring
  /\ IF AutoRetries
       THEN /\ StartCall("second", "twoParams")
            /\ ws' = CallBegun(ws)
            /\ UNCHANGED <<i, j, isCompleted>>
       ELSE /\ UNCHANGED call
            /\ IF call.result = "error"
                 THEN Break /\ ws' = [ws EXCEPT ![i].failed = @ + 1]
                 ELSE NextUnit /\ ws' = [ws EXCEPT ![i].ok = @ + 1]
  /\ UNCHANGED <<gasVars, envVars, auxVars, paramVars, configRead, price, now, balance,
                 isFirstAttempt, callbacks>>

\* main.js:122-143  what startMinting does with the result of executeMint
HandleResultMonitor ==
  /\ pc = "ret"
  /\ Monitoring
  /\ IF call.stage = "first" /\ call.result = "error" /\ isFirstAttempt
       THEN /\ isFirstAttempt' = FALSE
            /\ StartCall("second", "twoParams")
            /\ ws' = CallBegun(ws)
            /\ UNCHANGED <<i, j, isCompleted>>
       ELSE /\ UNCHANGED <<call, isFirstAttempt>>
            /\ NextUnit
            /\ ws' = IF call.result = "error"
                       THEN [ws EXCEPT ![i].failed = @ + 1]
                       ELSE [ws EXCEPT ![i].ok = @ + 1]
  /\ UNCHANGED <<gasVars, envVars, auxVars, paramVars, configRead, price, now, balance, callbacks>>

\* main.js:563, main.js:141  setTimeout 2000 between two units, then the next unit
PauseUnit ==
  /\ pc = "pauseUnit"
  /\ j' = j + 1
  /\ StartCall("first", FirstVariant)
  /\ ws' = CallBegun(ws)
  /\ UNCHANGED <<gasVars, envVars, auxVars, paramVars, configRead, price, now, balance, i,
                 isFirstAttempt, isCompleted, callbacks>>

\* main.js:569, main.js:146  setTimeout 5000 between two wallets, then the next wallet
PauseWallet ==
  /\ pc = "pauseWallet"
  /\ NextWallet
  /\ UNCHANGED <<gasVars, envVars, auxVars, paramVars, configRead, price, now, balance, j,
                 isFirstAttempt, callbacks, call, ws>>

\* ------------------------------------------------------- startMonitoring

\* main.js:51  currentTime >= startTime && currentTime <= endTime
WindowOpen(t) == t >= config.startTime /\ t <= config.endTime

\* main.js:54-58, 92-94  startCallback(price): startMinting begins its wallet loop
InvokeCallback ==
  /\ price' = Some(config.price)
  /\ callbacks' = callbacks + 1
  /\ i' = 0
  /\ ws' = [w \in Wallets |-> [ws[w] EXCEPT !.pre = "none", !.read = 0, !.calls = 0]]
  /\ pc' = "preflight"

\* a tick whose config read throws and ends the monitoring run
ConfigReadFailsAborts ==
  /\ configRead' = "error"
  /\ pc' = "aborted"
  /\ UNCHANGED <<price, callbacks, i, ws>>

\* main.js:47, 65-67  getConfigWithFallback (or a read of publicStage) throws: the
\* outer catch of monitorMintStart returns false
ConfigReadFails ==
  /\ configRead' = "error"
  /\ pc' = "sleep"
  /\ UNCHANGED <<price, callbacks, i, ws>>

\* main.js:160-161, 151, 45-68  one tick: monitor() calls monitorMintStart, which
\* reads the config and, in the sale window, calls startMinting
MonitorTick ==
  /\ pc = "tick"
  /\ ~isCompleted
  /\ \/ ConfigReadFails
     \/ /\ configRead' = "ok"
        /\ IF WindowOpen(now)
             THEN callbacks < MaxCallbacks /\ InvokeCallback
             ELSE /\ pc' = "sleep"
                  /\ UNCHANGED <<price, callbacks, i, ws>>
  /\ UNCHANGED <<gasVars, envVars, auxVars, paramVars, now, balance, j,
                 isFirstAttempt, isCompleted, call>>

\* main.js:166  setTimeout(resolve, monitorInterval): the clock moves on by the
\* delay of the timer at least (as far as the clock of the model goes)
MonitorSleep ==
  /\ pc = "sleep"
  /\ \E t \in now..MaxTime :
       /\ \/ t >= now + TimeoutDelay(monitorInterval) \div 1000
          \/ t = MaxTime
       /\ now' = t
  /\ pc' = "tick"
  /\ UNCHANGED <<gasVars, envVars, auxVars, paramVars, configRead, price, balance, i, j,
                 isFirstAttempt, isCompleted, callbacks, call, ws>>

\* the prices the owner of the contract can set publicStage.price to during a run
NewPrices == {2}

\* the contract: its owner sets another price for the public stage while the
\* monitor waits for its next tick; monitorMintStart reads the config anew at
\* every tick (main.js:47). The change is taken once the run has had a transaction
\* accepted: a price set earlier is the price of every transaction of the run.
SetPrice ==
  /\ Monitoring
  /\ pc = "sleep"
  /\ \E w \in Wallets : ws[w].subs > 0
  /\ config.price \in Prices
  /\ \E p \in NewPrices : config' = [config EXCEPT !.price = p]
  /\ UNCHANGED <<mintMode, mintMethod, nWallets, mintAmount, gasLimit, maxFeePerGas,
                 maxPriorityFeePerGas, monitorInterval, gasCost>>
  /\ UNCHANGED <<gasVars, envVars, auxVars, configRead, price, now, balance, pc, i, j,
                 isFirstAttempt, isCompleted, callbacks, call, ws>>

\* ---------------------------------------------------------- specification

Init == GasIdle /\ EnvIdle /\ AuxIdle /\ InitMain

Next ==
  \/ MainDispatch \/ ScheduledWait \/ Preflight
  \/ Submit \/ AwaitReceipt \/ FallbackSubmit \/ MineTx
  \/ HandleResult \/ HandleResultMonitor \/ PauseUnit \/ PauseWallet
  \/ MonitorTick \/ MonitorSleep

Spec == Init /\ [][Next]_vars

\* The runs of main against a contract whose owner may change the price.
NextPriceChange == Next \/ SetPrice

SpecPriceChange == Init /\ [][NextPriceChange]_vars

\* A Scheduled Mint run of one wallet and one unit, for sales that start within
\* MaxLead seconds and for sales that start about 2^31 ms after the run.
SchedStarts == (0..MaxLead) \cup {TIMEOUT_MAX \div 1000 + d : d \in 0..MaxLead}

InitSched ==
  /\ GasIdle
  /\ EnvIdle
  /\ AuxIdle
  /\ mintMode = "Scheduled Mint"
  /\ mintMethod \in MintMethods
  /\ nWallets = 1 /\ mintAmount = 1
  /\ gasLimit = MinGasLimit
  /\ maxFeePerGas \in MaxFees
  /\ maxPriorityFeePerGas = 1
  /\ monitorInterval = Undefined
  /\ \E p \in Prices, s \in SchedStarts :
       /\ config = [startTime |-> s, endTime |-> s, price |-> p]
       /\ price = Some(p)
       /\ balance \in [Wallets -> {RequiredAmount(p) - 1, RequiredAmount(p)}]
  /\ gasCost \in GasCosts
  /\ now = 0
  /\ pc = "main" /\ i = 0 /\ j = 0
  /\ isFirstAttempt = TRUE /\ isCompleted = FALSE /\ callbacks = 0
  /\ configRead = "none"
  /\ call = NoCall
  /\ ws = [w \in Wallets |-> NoWalletState]

NextSched ==
  \/ MainDispatch \/ ScheduledWait \/ Preflight
  \/ Submit \/ AwaitReceipt \/ FallbackSubmit \/ MineTx
  \/ HandleResult

SpecSched == InitSched /\ [][NextSched]_vars

\* ------------------------------------------------------------------ claims

\* executeMint is running for wallet w, or has just returned to its unit loop
InCall(w) == i = w /\ pc \in {"submit", "wait", "fallback", "ret"}

\* wallet w is inside its unit loop
InUnitLoop(w) == InCall(w) \/ (i = w /\ pc = "pauseUnit")

\* the contract calls of the call under way that a node accepted: its transactions
Txs(c) == {k \in DOMAIN c.attempts : c.attempts[k].outcome = "ok"}

\* the fourParams contract call of c was rejected as reverted, at submission or by
\* tx.wait()
RevertedFourParams(c) ==
  /\ c.variant = "fourParams"
  /\ Len(c.attempts) >= 1
  /\ \/ c.attempts[1].outcome = "CALL_EXCEPTION"
     \/ c.attempts[1].wait = "CALL_EXCEPTION"

\* C1: in the mint loop of main (Instant Mint, Scheduled Mint), a unit of a wallet
\* that ends in a Failure ends that wallet's unit loop and nothing else: the wallet
\* has at most one failed unit and no executeMint call after it, every wallet
\* before the one under way has been preflighted, and a run that ends normally has
\* preflighted every wallet of the list.
C1_FailureSkipsOnlyThatWallet ==
  ~Monitoring /\ pc # "idle" =>
    /\ \A w \in Wallets :
         /\ ws[w].failed <= 1
         /\ ws[w].failed = 1 => ~InUnitLoop(w) /\ ws[w].ok < mintAmount
         /\ w < i => ws[w].pre # "none"
    /\ pc = "done" => \A w \in Wallets : ws[w].pre # "none"

C1_Witness ==
  /\ mintMode = "Instant Mint" /\ nWallets = 2 /\ mintAmount = 2
  /\ ws[0].ok = 1 /\ ws[0].failed = 1 /\ ws[0].calls = 2
  /\ ws[1].pre = "passed" /\ ws[1].ok = 2
  /\ pc = "done"

\* C2: in main's loop and in startMinting's, a wallet whose preflight read a balance
\* of price x mintAmount + maxFeePerGas x gasLimit - 1 or less is reported
\* insufficient and gets no executeMint call in that pass over the wallets.
C2_InsufficientNeverMints ==
  price # None =>
    \A w \in Wallets :
      (ws[w].pre # "none" /\ ws[w].read <= Val(price) * mintAmount + maxFeePerGas * gasLimit - 1)
        => /\ ws[w].pre = "insufficient"
           /\ ws[w].calls = 0
           /\ ~InUnitLoop(w)

C2_Witness ==
  /\ Monitoring /\ nWallets = 2 /\ pc = "done"
  /\ ws[0].pre = "insufficient"
  /\ ws[0].read = Val(price) * mintAmount + maxFeePerGas * gasLimit - 1
  /\ ws[0].subs = 0
  /\ ws[1].pre = "passed" /\ ws[1].ok >= 1

\* C3: a wallet whose preflight read a balance of exactly price x mintAmount +
\* maxFeePerGas x gasLimit is reported sufficient and goes on to its first
\* executeMint call.
C3_ExactBalanceMints ==
  price # None =>
    \A w \in Wallets :
      (ws[w].pre # "none" /\ ws[w].read = Val(price) * mintAmount + maxFeePerGas * gasLimit)
        => /\ ws[w].pre = "passed"
           /\ ws[w].calls >= 1

C3_Witness ==
  /\ mintMode = "Instant Mint" /\ mintAmount = 2
  /\ pc = "submit" /\ i = 1 /\ j = 0 /\ call.stage = "first" /\ call.attempts = <<>>
  /\ ws[1].read = Val(price) * mintAmount + maxFeePerGas * gasLimit
  /\ ws[1].pre = "passed" /\ ws[1].calls = 1

\* C4: inside one executeMint call, a fourParams contract call rejected with
\* CALL_EXCEPTION is followed by exactly one fallback contract call, of the twoParams
\* shape and with the gasLimit, maxFeePerGas, maxPriorityFeePerGas and value of the
\* first; when the node accepts it the call returns successVariant = twoParams.
C4_OneFallbackSameOptions ==
  /\ Len(call.attempts) <= 2
  /\ (RevertedFourParams(call) /\ call.result # "none") => Len(call.attempts) = 2
  /\ pc = "fallback" => RevertedFourParams(call) /\ Len(call.attempts) = 1
  /\ Len(call.attempts) = 2 =>
       /\ RevertedFourParams(call)
       /\ call.attempts[2].variant = "twoParams"
       /\ call.attempts[2].opts = call.attempts[1].opts
       /\ call.attempts[2].opts =
            [gasLimit |-> gasLimit, maxFeePerGas |-> maxFeePerGas,
             maxPriorityFeePerGas |-> maxPriorityFeePerGas, value |-> Val(price)]
       /\ call.attempts[2].outcome = "ok" =>
            call.result = "success" /\ call.successVariant = "twoParams"
       /\ call.attempts[2].outcome # "ok" => call.result = "error"

C4_Witness ==
  /\ pc = "ret" /\ call.variant = "fourParams" /\ Len(call.attempts) = 2
  /\ call.attempts[1].outcome = "CALL_EXCEPTION"
  /\ call.attempts[2].outcome = "ok"
  /\ call.result = "success" /\ call.successVariant = "twoParams"

\* C5: an executeMint call one of whose transactions (of the requested variant or
\* the twoParams fallback) is mined with a failure status returns a Failure, never
\* a Success.
C5_FailedReceiptIsFailure ==
  (\E k \in Txs(call) : call.attempts[k].status = "failed") => call.result # "success"

\* C6: in a monitoring run the start callback is not invoked while now <
\* startTime, it is invoked with the price of the config (the tick's price), and
\* over the whole run it is invoked exactly once: never twice, and once when the
\* run is over.
C6_CallbackExactlyOnce ==
  Monitoring =>
    /\ now < config.startTime => callbacks = 0 /\ pc \in {"main", "tick", "sleep"}
    /\ callbacks = 0 <=> price = None
    /\ callbacks > 0 => price = Some(config.price)
    /\ callbacks <= 1
    /\ pc = "done" => callbacks = 1

\* C10: only a call-reverted failure leads to a twoParams transaction: inside a
\* fourParams executeMint call a twoParams contract call is made only after a
\* CALL_EXCEPTION, and in the auto method of main a unit whose fourParams call
\* returned another error (insufficient funds, network) gets no twoParams
\* transaction.
C10_OnlyRevertFallsBack ==
  /\ (call.variant = "fourParams" /\ Len(call.attempts) = 2) => RevertedFourParams(call)
  /\ (~Monitoring /\ call.stage = "second"
        /\ call.prior \in {"INSUFFICIENT_FUNDS", "NETWORK_ERROR", "RECEIPT_STATUS_0"})
       => Txs(call) = {}


\* C11: for one unit of a wallet the twoParams fallback is tried at most once: an
\* executeMint call makes at most two contract calls, and when a call of the unit
\* has already made the twoParams fallback call, the unit gets no executeMint
\* call after it (its failure is reported without a further attempt).
C11_FallbackTriedOnce ==
  /\ [](Len(call.attempts) <= 2)
  /\ [][(/\ pc = "ret"
         /\ Len(call.attempts) = 2
         /\ call.attempts[2].variant = "twoParams")
          => ~(call'.stage = "second" /\ pc' = "submit")]_vars

\* C12: an error of the config read of a monitoring tick counts as not yet open:
\* the monitoring run is never aborted, the tick invokes no callback and goes to
\* the wait of the interval, after which the monitor polls again.
C12_ReadErrorKeepsWaiting ==
  /\ [](Monitoring => pc # "aborted")
  /\ [](Monitoring /\ pc = "sleep" => ENABLED MonitorSleep)
  /\ [](Monitoring /\ pc = "tick" /\ ~isCompleted => ENABLED MonitorTick)
  /\ [][(pc = "tick" /\ pc' # "tick" /\ configRead' = "error")
          => /\ callbacks' = callbacks
             /\ pc' = "sleep"
             /\ UNCHANGED <<price, now, isCompleted, ws, call>>]_vars
  /\ [][pc = "sleep" /\ pc' # "sleep" => pc' = "tick"]_vars

C12_Witness ==
  /\ Monitoring /\ WindowOpen(now)
  /\ configRead = "error" /\ pc = "sleep" /\ callbacks = 0 /\ price = None

\* C13: the wallet loop of Monitoring Mode treats a Failure as main's does: in a
\* pass of startMinting a wallet has at most one failed unit and gets no
\* executeMint call after it, and the wallets after it are still preflighted.
C13_MonitoringAbandonsWallet ==
  (Monitoring /\ callbacks = 1) =>
    /\ \A w \in Wallets :
         /\ ws[w].failed <= 1
         /\ ws[w].failed = 1 => ~InUnitLoop(w)
         /\ w < i => ws[w].pre # "none"
    /\ pc = "done" => \A w \in Wallets : ws[w].pre # "none"

\* C14: at every moment of a run at most one mint transaction is submitted and not
\* mined, and an executeMint call that has returned has no transaction left
\* unmined, so that no unit is started while a transaction is pending.
C14_OnePendingTransaction ==
  pc # "idle" =>
    /\ \A w \in Wallets :
         /\ PendingOf(w) <= 1
         /\ PendingOf(w) = 1 => \A v \in Wallets \ {w} : PendingOf(v) = 0
    /\ pc = "ret" => PendingIn(call.attempts) = 0
    /\ pc \in {"preflight", "submit", "pauseUnit", "pauseWallet", "done"}
         => \A w \in Wallets : PendingOf(w) = 0

\* the executeMint call under way for wallet w has not returned to the unit loop's
\* bookkeeping yet
CallOpen(w) == IF InCall(w) THEN 1 ELSE 0

\* C15: in main's loop with a fixed mint method (fourParams or twoParams) the
\* executeMint calls are, wallet after wallet in list order: none for a wallet that
\* fails preflight; for a wallet that passes, one call per unit from unit 1 up to
\* its first failing unit, or to mintAmount when none fails. No wallet is called
\* before the wallets ahead of it are through, and the successes of a wallet are
\* its calls that returned a Success.
C15_CallsInOrderUpToFirstFailure ==
  (~Monitoring /\ mintMethod # "auto" /\ pc \notin {"idle", "main", "scheduled"}) =>
    \A w \in Wallets :
      /\ w > i => ws[w].pre = "none" /\ ws[w].calls = 0
      /\ ws[w].pre \in {"none", "insufficient"} => ws[w].calls = 0
      /\ ws[w].calls = ws[w].ok + ws[w].failed + CallOpen(w)
      /\ ws[w].calls <= mintAmount
      /\ ws[w].failed <= 1
      /\ ws[w].failed = 1 => ~InUnitLoop(w)
      /\ (w = i /\ InUnitLoop(w)) => j = ws[w].ok + CallOpen(w) - 1
      /\ (w < i \/ pc = "done") =>
           /\ ws[w].pre # "none"
           /\ ws[w].pre = "passed" =>
                IF ws[w].failed = 0 THEN ws[w].ok = mintAmount
                                    ELSE ws[w].ok < mintAmount

C15_Witness ==
  /\ mintMode = "Instant Mint" /\ mintMethod = "fourParams"
  /\ nWallets = 2 /\ mintAmount = 2 /\ pc = "done"
  /\ ws[0].pre = "passed" /\ ws[0].calls = 2 /\ ws[0].ok = 2 /\ ws[0].failed = 0
  /\ ws[1].pre = "insufficient" /\ ws[1].calls = 0 /\ ws[1].ok = 0 /\ ws[1].subs = 0

\* C16: in main's loop an unexpected client error while a wallet is processed (the
\* balance read throwing) ends the run for that wallet only: when the run is
\* over, every wallet after it in the list has been preflighted.
C16_ThrowSkipsOnlyThatWallet ==
  (~Monitoring /\ pc \in {"aborted", "done"}) =>
    \A w \in Wallets : w > i => ws[w].pre # "none"

\* C17: Monitoring Mode started from main, where the user supplies no interval,
\* polls with the default interval: the timer between two polls of the sale
\* configuration is set to 3000 ms.
C17_DefaultPollInterval ==
  (Monitoring /\ pc = "sleep") =>
    /\ monitorInterval = Num(3000)
    /\ TimeoutDelay(monitorInterval) = 3000

\* C18: in a Scheduled Mint run whose read of the config succeeded, no executeMint
\* call (and so no mint transaction) is made before startTime; a run whose read
\* failed does not wait and goes on to the mint loop.
C18_ScheduledWaitsForStart ==
  /\ []((/\ mintMode = "Scheduled Mint"
         /\ configRead = "ok"
         /\ \E w \in Wallets : ws[w].calls > 0)
          => now >= config.startTime)
  /\ [][(pc = "scheduled" /\ pc' # "scheduled" /\ configRead' = "error")
          => pc' = "preflight" /\ now' = now]_vars

\* the PRIVATEKEY_n entries that hold a valid key
ValidNumberedKeys == {n \in 1..MaxKeys : env[n] = "valid"}

\* C19: loadWallets returns one wallet for every valid PRIVATEKEY_n entry, in the
\* order of n, so that PRIVATEKEY_1..PRIVATEKEY_k give the mint loop k wallets.
C19_OneWalletPerKey ==
  epc = "loaded" =>
    /\ Len(wallets) >= Cardinality(ValidNumberedKeys)
    /\ \A n \in ValidNumberedKeys : \E x \in DOMAIN wallets : wallets[x] = n
    /\ \A x, y \in DOMAIN wallets : x < y => wallets[x] < wallets[y]

\* what a result object carries: its own properties and those of its tx
Carried(returned) == returned \cup (IF "tx" \in returned THEN TxResponse ELSE {})

\* C20: a Success returned by executeMint carries the hash, the block number, the
\* gas used and the effective gas price of the mined transaction, under the names
\* main reads or in its tx, and a Failure carries a reason.
C20_ResultCarriesReceipt ==
  /\ call.result = "success" =>
       /\ Carried(call.returned) \cap {"txHash", "tx.hash"} # {}
       /\ Carried(call.returned) \cap {"blockNumber", "tx.blockNumber"} # {}
       /\ Carried(call.returned) \cap {"gasUsed", "tx.gasUsed"} # {}
       /\ Carried(call.returned) \cap {"effectiveGasPrice", "tx.effectiveGasPrice"} # {}
  /\ call.result = "error" => "error" \in call.returned /\ call.error # "none"

\* C21: an executeMint call of the twoParams variant never makes a fallback call:
\* it makes one contract call at most, and when that call is rejected as
\* reverted (at submission or by tx.wait()) it returns a Failure.
C21_TwoParamsNeverFallsBack ==
  call.variant = "twoParams" =>
    /\ Len(call.attempts) <= 1
    /\ pc # "fallback"
    /\ (/\ Len(call.attempts) = 1
        /\ \/ call.attempts[1].outcome = "CALL_EXCEPTION"
           \/ call.attempts[1].wait = "CALL_EXCEPTION")
         => /\ call.result = "error"
            /\ call.error = "CALL_EXCEPTION"
            /\ pc \notin {"submit", "wait"}

C21_Witness ==
  /\ pc = "ret" /\ call.variant = "twoParams" /\ call.stage = "first"
  /\ Len(call.attempts) = 1 /\ call.attempts[1].outcome = "CALL_EXCEPTION"
  /\ call.result = "error"

\* C22: startMonitoring ends exactly when a tick has read the config, found the
\* window open and seen the start callback through; a run in which that has not
\* happened is never aborted, and whenever it is polling or waiting for the next
\* poll it has submitted no mint transaction.
C22_MonitoringEndsOnlyWhenMinted ==
  Monitoring =>
    /\ pc # "aborted"
    /\ pc = "done" <=> isCompleted
    /\ isCompleted => callbacks >= 1 /\ configRead = "ok" /\ WindowOpen(now)
    /\ callbacks = 0 => \A w \in Wallets : ws[w].subs = 0 /\ ws[w].calls = 0
    /\ pc \in {"tick", "sleep"} => \A w \in Wallets : ws[w].subs = 0

\* the reads of getConfigWithFallback in the order the claim gives them
ProbeOrder ==
  <<[fn |-> "getConfig()", id |-> 0],
    [fn |-> "getConfig(uint256)", id |-> 0], [fn |-> "getConfig(uint256)", id |-> 1],
    [fn |-> "getConfig(uint256)", id |-> 2], [fn |-> "getConfig(uint256)", id |-> 3]>>

\* C23: getConfigWithFallback reads getConfig() and then getConfig(uint256) for
\* the ids 0, 1, 2, 3 in that order, at most 5 reads; it returns the answer of the
\* first read that succeeds and reads no further, and it throws exactly when all
\* 5 reads have failed.
C23_FirstSuccessfulProbeWins ==
  cfgPc # "idle" =>
    /\ Len(cfgReads) <= 5
    /\ \A k \in DOMAIN cfgReads :
         /\ cfgReads[k] = ProbeOrder[k]
         /\ k < Len(cfgReads) => Answer(cfgReads[k]) = 0
    /\ cfgPc = "returned" =>
         /\ cfgReads # <<>>
         /\ Answer(cfgReads[Len(cfgReads)]) # 0
         /\ cfgResult # None
         /\ Val(cfgResult).config = Answer(cfgReads[Len(cfgReads)])
    /\ cfgPc = "thrown" =>
         /\ Len(cfgReads) = 5
         /\ \A k \in 1..5 : Answer(ProbeOrder[k]) = 0
         /\ cfgResult = None
    /\ (\A k \in 1..5 : Answer(ProbeOrder[k]) = 0) => cfgPc # "returned"
    /\ cfgPc \notin {"returned", "thrown"} => ENABLED NextCfg

C23_Witness ==
  /\ cfgPc = "returned" /\ Len(cfgReads) = 4
  /\ cfgChain.byId[3] # 0 /\ cfgChain.byId[2] # 0
  /\ Val(cfgResult) = [config |-> cfgChain.byId[2], variant |-> "fourParams"]

\* C24: in the immediate-mode loop the 2000 ms pause follows a successful unit
\* exactly when it is not the wallet's last unit; the 5000 ms pause follows a
\* wallet that passed preflight, whether its units ended by success or by a
\* failure, exactly when it is not the last wallet; a wallet skipped by preflight
\* is followed by no pause.
C24_PausesBetweenUnitsAndWallets ==
  [][~Monitoring =>
      /\ (pc = "ret" /\ pc' # "ret" /\ call.result = "success") =>
           /\ pc' = "pauseUnit" <=> j < mintAmount - 1
           /\ j >= mintAmount - 1 => (pc' = "pauseWallet" <=> i < nWallets - 1)
      /\ (pc = "ret" /\ pc' # "ret" /\ call.result = "error" /\ pc' # "submit") =>
           /\ pc' # "pauseUnit"
           /\ pc' = "pauseWallet" <=> i < nWallets - 1
      /\ (pc = "preflight" /\ pc' # "aborted" /\ ws'[i].pre = "insufficient") =>
           pc' \in {"preflight", "done"}
      /\ (pc' = "pauseUnit" /\ pc # "pauseUnit") => pc = "ret" /\ call.result = "success"
      /\ (pc' = "pauseWallet" /\ pc # "pauseWallet") =>
           pc = "ret" /\ ws[i].pre = "passed"
      /\ pc = "pauseUnit" /\ pc' # "pauseUnit" => pc' = "submit" /\ j' = j + 1 /\ i' = i
      /\ pc = "pauseWallet" /\ pc' # "pauseWallet" => pc' = "preflight" /\ i' = i + 1
  ]_vars

C24_Witness ==
  /\ ~Monitoring /\ pc = "pauseWallet" /\ i = 0 /\ nWallets = 2 /\ mintAmount = 2
  /\ ws[0].pre = "passed" /\ ws[0].ok = 1 /\ ws[0].failed = 1

\* C25: once the contract handle is created executeMint propagates no exception:
\* whatever the submission, the wait for the receipt and the fallback answer, the
\* call goes on inside executeMint or returns, and what it returns is a Success
\* { tx, successVariant } or a Failure { error }.
C25_ExecuteMintAlwaysReturns ==
  /\ [](pc = "ret" =>
          \/ /\ call.result = "success"
             /\ call.returned = {"tx", "successVariant"}
             /\ call.successVariant \in MintMethods \ {"auto"}
          \/ /\ call.result = "error"
             /\ call.returned = {"error"}
             /\ call.error \in {"CALL_EXCEPTION", "INSUFFICIENT_FUNDS", "NETWORK_ERROR",
                                "RECEIPT_STATUS_0"})
  /\ [][(pc \in {"submit", "wait", "fallback"}) =>
          (/\ pc' \in {"submit", "wait", "fallback", "ret"}
           /\ pc' # "ret" => call'.result = "none")]_vars

C25_Witness ==
  /\ pc = "ret" /\ call.result = "error" /\ Len(call.attempts) = 2
  /\ call.attempts[1].outcome = "CALL_EXCEPTION"
  /\ call.attempts[2].outcome = "INSUFFICIENT_FUNDS"
  /\ call.returned = {"error"}

\* C26: in getGasPrice a getFeeData that yields no base fee is a failed attempt
\* (counted, followed by the wait or, at the third, by the defaults); the first
\* attempt that succeeds, the k-th with k <= 3, ends getGasPrice: no read follows
\* it, and what is returned is the live quote built from the base fee read in that
\* attempt, not the defaults.
C26_FirstSuccessfulAttemptReturnsLive ==
  /\ [](gpc = "done" /\ gLive # None =>
          /\ gi <= 2 /\ gFailed = gi /\ gReads = gi + 1
          /\ gBaseFee # None
          /\ gQuote # None
          /\ Val(gQuote).baseFee = Val(gBaseFee)
          /\ Val(gQuote).currentGasPrice \in GasPrices
          /\ Val(gQuote).suggestedMaxFee =
               SuggestedMaxFee(Val(gBaseFee), Val(gQuote).currentGasPrice)
          /\ ~ENABLED NextGas)
  /\ [][(gpc = "feeData" /\ gBaseFee' = None) =>
          (/\ gFailed' = gFailed + 1
           /\ gLive' = None
           /\ IF gi = 2 THEN gpc' = "done" /\ gQuote' = Some(DefaultQuote)
                        ELSE gpc' = "wait" /\ gQuote' = None)]_vars

C26_Witness ==
  /\ gpc = "done" /\ gi = 2 /\ gFailed = 2 /\ gReads = 3 /\ gLive # None
  /\ gQuote = Some(LiveQuote(Val(gBaseFee), 1))

\* C29: whatever getGasPrice returns, the live quote of an attempt or the
\* defaults, its suggestedMaxFee is at least its baseFee and at least its
\* currentGasPrice, for every non-negative base fee and gas price read.
C29_SuggestedMaxFeeCoversBoth ==
  gQuote # None =>
    /\ Val(gQuote).baseFee >= 0 /\ Val(gQuote).currentGasPrice >= 0
    /\ Val(gQuote).suggestedMaxFee >= Val(gQuote).baseFee
    /\ Val(gQuote).suggestedMaxFee >= Val(gQuote).currentGasPrice

C29_Witness ==
  /\ gpc = "done" /\ gQuote = gLive /\ gLive # None
  /\ Val(gQuote).baseFee = MaxFeeReading /\ Val(gQuote).currentGasPrice = 0

\* C27: a wallet that passed preflight can fund every one of its units: when unit
\* j is about to be submitted, the wallet having sent one transaction for each of
\* the j units before it and all of them mined at no more than price +
\* maxFeePerGas x gasLimit each, its balance is at least price + maxFeePerGas x
\* gasLimit.
C27_PassedWalletFundsEveryUnit ==
  (/\ ~Monitoring
   /\ pc = "submit" /\ call.stage = "first" /\ call.attempts = <<>>
   /\ ws[i].pre = "passed"
   /\ ws[i].subs = j /\ PendingOf(i) = 0) =>
     balance[i] >= UnitCost(Val(price))

\* C28: in a run of any mode, the mint transactions a wallet has had accepted by
\* the node are never more than mintAmount.
C28_AtMostMintAmountTransactions ==
  \A w \in Wallets : ws[w].subs <= mintAmount

\* C30: for every base fee, every whole percentage from 1 to 100 and every max gas
\* price the prompt accepted, the fee parameters of a mint transaction satisfy
\* maxPriorityFeePerGas = floor(baseFee x percent / 100) <= baseFee <= maxFeePerGas.
C30_FeeParametersOrdered ==
  feePc = "computed" =>
    LET f == Val(feeParams) IN
      /\ f.maxPriorityFeePerGas = MulDiv100(promptBaseFee, priorityFeePercent)
      /\ (promptBaseFee.g = 0 /\ promptBaseFee.w < 100) =>
           /\ f.maxPriorityFeePerGas.g = 0
           /\ 100 * f.maxPriorityFeePerGas.w <= promptBaseFee.w * priorityFeePercent
           /\ promptBaseFee.w * priorityFeePercent < 100 * (f.maxPriorityFeePerGas.w + 1)
      /\ (promptBaseFee.g = 0 /\ promptBaseFee.w % 100 = 0) =>
           f.maxPriorityFeePerGas = Wei(0, (promptBaseFee.w \div 100) * priorityFeePercent)
      /\ promptBaseFee.w = 0 =>
           f.maxPriorityFeePerGas =
             Wei((promptBaseFee.g * priorityFeePercent) \div 100,
                 ((promptBaseFee.g * priorityFeePercent) % 100) * (WeiPerGwei \div 100))
      /\ WeiLe(f.maxPriorityFeePerGas, promptBaseFee)
      /\ WeiLe(promptBaseFee, f.maxFeePerGas)

\* the txOptions of all the transactions the run has had accepted
SentOptions == UNION {ws[w].sent : w \in Wallets}

\* C31: within one run gasLimit, maxFeePerGas, maxPriorityFeePerGas and the mint
\* price are fixed before the first submission and every transaction submitted,
\* of any wallet, unit and variant, carries the same four values; no step of the
\* mint loop reads the fees again or changes the wallet list.
C31_SameParametersInEveryTransaction ==
  /\ [](/\ Cardinality(SentOptions) <= 1
        /\ \A o \in SentOptions :
             /\ o.gasLimit = gasLimit
             /\ o.maxFeePerGas = maxFeePerGas
             /\ o.maxPriorityFeePerGas = maxPriorityFeePerGas
             /\ o.value \in Prices \cup NewPrices
        /\ \A k \in DOMAIN call.attempts :
             call.attempts[k].outcome = "ok" => call.attempts[k].opts \in SentOptions)
  /\ [][(pc # "main") =>
          (/\ UNCHANGED <<gasLimit, maxFeePerGas, maxPriorityFeePerGas, nWallets, mintAmount>>
           /\ UNCHANGED <<gasVars, feeVars, wallets>>)]_vars

\* C7: after 3 consecutive failed read attempts getGasPrice returns the default
\* quote: baseFee 50 gwei, currentGasPrice 100 gwei, suggestedMaxFee 100 gwei.
C7_DefaultsAfterThreeFailures ==
  (gpc = "done" /\ gFailed = 3) =>
     gQuote = Some([baseFee |-> 50, currentGasPrice |-> 100, suggestedMaxFee |-> 100])

C7_Witness == gpc = "done" /\ gFailed = 3 /\ gReads = 3 /\ gQuote # None

\* C8: on a successful read, suggestedMaxFee is currentGasPrice when
\* currentGasPrice > 2 x baseFee and 2 x baseFee otherwise: the greater of the two.
C8_SuggestedMaxFeeIsMax ==
  gLive # None =>
    LET q == Val(gLive) IN
      /\ q.currentGasPrice > 2 * q.baseFee => q.suggestedMaxFee = q.currentGasPrice
      /\ q.currentGasPrice <= 2 * q.baseFee => q.suggestedMaxFee = 2 * q.baseFee
      /\ q.suggestedMaxFee >= q.currentGasPrice
      /\ q.suggestedMaxFee >= 2 * q.baseFee

C8_Witness ==
  /\ gpc = "done" /\ gLive # None /\ gQuote = gLive
  /\ Val(gLive).baseFee > 0
  /\ Val(gLive).currentGasPrice > 2 * Val(gLive).baseFee

\* C9: getGasPrice never lets an error escape and always ends with a quote: it
\* makes at most 3 read attempts, has waited once after each of the first two
\* failed attempts, can always take a step until it has returned, and what it
\* returns is the live quote of the attempt that succeeded or the defaults.
C9_AlwaysReturnsQuote ==
  /\ gpc # "thrown"
  /\ gReads <= 3
  /\ gFailed <= gReads
  /\ gWaits = (IF gpc \in {"wait", "done"} /\ gFailed > gWaits
                THEN gFailed - 1 ELSE gFailed)
  /\ gWaits <= 2
  /\ gpc # "done" => ENABLED NextGas
  /\ gpc = "done" =>
       /\ gQuote # None
       /\ IF gLive # None THEN gQuote = gLive ELSE gQuote = Some(DefaultQuote)
       /\ gLive = None <=> gFailed = 3

C9_Witness == gpc = "done" /\ gFailed = 2 /\ gWaits = 2 /\ gLive # None

====
